---------------------------- MODULE Spec2Model ----------------------------
(***************************************************************************)
(* Content-generation orchestrator of Video-Genius-App                     *)
(* (src/server/openai.ts): quantity extraction from the topic, the script  *)
(* generator with its count validation and single retry, and the fan-out   *)
(* coordinators generateCompleteContent / generateContentFromScript; and   *)
(* the two routes that call them (src/server/routes.ts).                   *)
(*                                                                         *)
(* A text is a sequence of one-character strings.  A JSON object is a      *)
(* record of optional values: a key that is absent holds << >>.            *)
(***************************************************************************)
EXTENDS Integers, Sequences, FiniteSets, TLC

VARIABLES
    entry,                  \* exported function the request entered by
    topic,                  \* generateScript / generateCompleteContent: topic
    videoLength,            \* the duration bucket of the request
    tone,                   \* the tone the caller supplies, << >> if none
    selectedContentTypes,   \* requested kinds (only tested with .includes)
    rawScript,              \* generateContentFromScript: uploaded script text
    scriptPc,               \* position of generateScript
    requestedQuantity,      \* openai.ts:125
    isQAFormat,             \* openai.ts:128
    prompt,                 \* openai.ts:153, << >> until built
    parsedScript,           \* openai.ts:242, << >> until parsed
    retryParsed,            \* openai.ts:271, << >> until parsed
    scriptOutcome,          \* settled promise of generateScript
    calls,                  \* model invocations issued so far, in order
    replies,                \* per generator, how its invocations ended
    coordPc,                \* position of the coordinator
    content,                \* the GeneratedContent object being populated
    tasks,                  \* state of each promise pushed on `promises`
    ipSections,             \* image prompts: the sections being looped over
    ipResults,              \* image prompts: `results` so far
    outcome,                \* what the coordinator handed to its caller
    authenticated,          \* routes.ts: req.isAuthenticated()
    project,                \* routes.ts: the project record, << >> if none
    res                     \* routes.ts: the response sent, status 0 if none

vars == << entry, topic, videoLength, tone, selectedContentTypes, rawScript,
           scriptPc, requestedQuantity, isQAFormat, prompt, parsedScript,
           retryParsed,
           scriptOutcome, calls, replies, coordPc, content, tasks, ipSections,
           ipResults, outcome, authenticated, project, res >>

scriptVars == << scriptPc, requestedQuantity, isQAFormat, prompt,
                 parsedScript, retryParsed, scriptOutcome >>

coordVars == << coordPc, content, tasks, ipSections, ipResults, outcome >>

routeVars == << authenticated, project, res >>

-----------------------------------------------------------------------------
(* Bounds of the model *)

\* pieces of the lexicon concatenated into a topic given to the extractor
MaxPieces == 3

\* pieces of the lexicon concatenated into a topic given to generateScript
MaxTopicPieces == 2

\* longest mainContent array a model response carries
MaxItems == 2

\* most kinds in selectedContentTypes
MaxKinds == 2

\* longest uploaded script given to generateImagePromptsFromRawScript
MaxRawLen == 7

-----------------------------------------------------------------------------
(* Texts *)

\* an optional value: << >> when null / undefined / absent, <<v>> otherwise
None == << >>
Some(v) == <<v>>
Present(o) == o # << >>
Val(o) == o[1]

Digits == {"0", "1", "2", "3", "4", "5", "6", "7", "8", "9"}

DigitVal(c) ==
    CASE c = "0" -> 0 [] c = "1" -> 1 [] c = "2" -> 2 [] c = "3" -> 3
      [] c = "4" -> 4 [] c = "5" -> 5 [] c = "6" -> 6 [] c = "7" -> 7
      [] c = "8" -> 8 [] c = "9" -> 9

\* \s of the regular expressions, and the characters String.trim removes
Whitespace == {" ", "\t", "\n", "\r"}

\* the /i flag: letters compare by their lower-case form
Lower(c) ==
    CASE c = "A" -> "a" [] c = "B" -> "b" [] c = "C" -> "c" [] c = "D" -> "d"
      [] c = "E" -> "e" [] c = "F" -> "f" [] c = "G" -> "g" [] c = "H" -> "h"
      [] c = "I" -> "i" [] c = "J" -> "j" [] c = "K" -> "k" [] c = "L" -> "l"
      [] c = "M" -> "m" [] c = "N" -> "n" [] c = "O" -> "o" [] c = "P" -> "p"
      [] c = "Q" -> "q" [] c = "R" -> "r" [] c = "S" -> "s" [] c = "T" -> "t"
      [] c = "U" -> "u" [] c = "V" -> "v" [] c = "W" -> "w" [] c = "X" -> "x"
      [] c = "Y" -> "y" [] c = "Z" -> "z" [] OTHER -> c

\* word w (lower case) occurs in text t starting at position k, ignoring case
WordAt(t, k, w) ==
    /\ k >= 1
    /\ k + Len(w) - 1 <= Len(t)
    /\ \A i \in 1..Len(w) : Lower(t[k + i - 1]) = w[i]

\* positions reachable from a position of P by skipping whitespace (\s*)
SkipSpace(t, P) ==
    { q \in 1..(Len(t) + 1) :
        \E p \in P : p <= q /\ \A i \in p..(q - 1) : t[i] \in Whitespace }

\* the 17 alternatives of the quantity pattern, each without its optional
\* final "s" ("strategies?" is "strategie" with an optional "s")
UnitNouns ==
    { <<"q","u","e","s","t","i","o","n">>, <<"i","t","e","m">>,
      <<"t","i","p">>, <<"w","a","y">>, <<"s","t","e","p">>,
      <<"e","x","a","m","p","l","e">>, <<"i","d","e","a">>,
      <<"p","o","i","n","t">>, <<"t","h","i","n","g">>,
      <<"r","e","a","s","o","n">>, <<"s","e","c","r","e","t">>,
      <<"h","a","c","k">>, <<"t","r","i","c","k">>,
      <<"m","e","t","h","o","d">>, <<"s","t","r","a","t","e","g","i","e">>,
      <<"t","e","c","h","n","i","q","u","e">>, <<"f","a","c","t">> }

\* some alternative matches at position k; its optional "s" never decides it
NounAt(t, k) == \E w \in UnitNouns : WordAt(t, k, w)

\* (\d+)\s*(?:noun) matches with the digits t[i..j-1]
QuantityMatchAt(t, i, j) ==
    /\ i < j
    /\ \A d \in i..(j - 1) : t[d] \in Digits
    /\ \E k \in SkipSpace(t, {j}) : NounAt(t, k)

QuantityStarts(t) ==
    { i \in 1..Len(t) : \E j \in (i + 1)..(Len(t) + 1) : QuantityMatchAt(t, i, j) }

RECURSIVE ParseInt(_)
\* parseInt of a string of decimal digits
ParseInt(ds) ==
    IF ds = << >> THEN 0
    ELSE 10 * ParseInt(SubSeq(ds, 1, Len(ds) - 1)) + DigitVal(ds[Len(ds)])

Min(S) == CHOOSE x \in S : \A y \in S : x <= y
Max(S) == CHOOSE x \in S : \A y \in S : x >= y

\* ExtractQuantity as if the last match of the pattern were taken
ExtractQuantity_LastMatch(t) ==
    IF QuantityStarts(t) = {} THEN None
    ELSE LET i == Max({ s \in QuantityStarts(t) : s = 1 \/ t[s - 1] \notin Digits })
             j == Max({ e \in (i + 1)..(Len(t) + 1) : QuantityMatchAt(t, i, e) })
         IN  Some(ParseInt(SubSeq(t, i, j - 1)))

\* topic.match(...) and parseInt(quantityMatch[1]): the leftmost match, its
\* group 1 the longest digit run the rest of the pattern still matches after
ExtractQuantity(t) ==
    IF QuantityStarts(t) = {} THEN None
    ELSE LET i == Min(QuantityStarts(t))
             j == Max({ e \in (i + 1)..(Len(t) + 1) : QuantityMatchAt(t, i, e) })
         IN  Some(ParseInt(SubSeq(t, i, j - 1)))

\* DetectQA as if the pattern were /questions?/i alone
DetectQA_QuestionsOnly(t) ==
    \E i \in 1..Len(t) : WordAt(t, i, <<"q","u","e","s","t","i","o","n">>)

\* /questions?\s*(?:and|&)?\s*answers?/i.test(topic)
DetectQA(t) ==
    LET q  == <<"q","u","e","s","t","i","o","n">>
        P1 == { i + Len(q) : i \in { s \in 1..Len(t) : WordAt(t, s, q) } }
        P2 == P1 \cup { p + 1 : p \in { s \in P1 : WordAt(t, s, <<"s">>) } }
        P3 == SkipSpace(t, P2)
        P4 == P3 \cup { p + 3 : p \in { s \in P3 : WordAt(t, s, <<"a","n","d">>) } }
                 \cup { p + 1 : p \in { s \in P3 : WordAt(t, s, <<"&">>) } }
        P5 == SkipSpace(t, P4)
    IN  \E p \in P5 : WordAt(t, p, <<"a","n","s","w","e","r">>)

\* JavaScript truthiness of a number-or-null
Truthy(q) == Present(q) /\ Val(q) # 0

-----------------------------------------------------------------------------
(* Inputs: topics *)

\* the pieces topics are built from
Lexicon ==
    { <<"1">>, <<"2">>, <<"0">>, <<" ">>, <<"t","i","p","s">>,
      <<"Q","u","e","s","t","i","o","n","s">>, <<"a","n","d">>, <<"&">>,
      <<"a","n","s","w","e","r","s">>, <<"s","a","v","e">> }

RECURSIVE Concat(_)
Concat(ps) == IF ps = << >> THEN << >> ELSE Head(ps) \o Concat(Tail(ps))

\* every concatenation of at most n pieces
TextsOf(n) == { Concat(ps) : ps \in UNION { [1..m -> Lexicon] : m \in 0..n } }

Topics == TextsOf(MaxPieces)

ScriptTopics == TextsOf(MaxTopicPieces)

-----------------------------------------------------------------------------
(* The model collaborator: what one invocation can come back with *)

\* text of a script section written by the model in answer to call k
SectionText(name, k, i) == <<name, ToString(k), ToString(i)>>

Section(name, k, i) ==
    [title |-> SectionText(name, k, i), content |-> SectionText(name, k, i)]

\* a script object with all four parts; mc is the optional mainContent
ScriptObject(k, mc) ==
    [hook |-> Some(Section("h", k, 0)),
     introduction |-> Some(Section("i", k, 0)),
     mainContent |-> mc,
     conclusion |-> Some(Section("c", k, 0)),
     totalWords |-> Some(100 * k),
     estimatedDuration |-> Some(<<"d", ToString(k)>>)]

\* the object {}
EmptyScriptObject ==
    [hook |-> None, introduction |-> None, mainContent |-> None,
     conclusion |-> None, totalWords |-> None, estimatedDuration |-> None]

MainContentOf(k, n) == [i \in 1..n |-> Section("m", k, i)]

\* JSON objects the model may answer call k with
ScriptObjects(k) ==
    { ScriptObject(k, Some(MainContentOf(k, n))) : n \in 0..MaxItems }
        \cup { ScriptObject(k, None), EmptyScriptObject }

\* an invocation fails, or returns text that JSON.parse rejects, or returns
\* the text of a JSON object (`content || "{}"` makes empty content the {})
Outcomes(objects) ==
    { [kind |-> "error", json |-> None], [kind |-> "unparseable", json |-> None] }
        \cup { [kind |-> "json", json |-> Some(o)] : o \in objects }

\* (error as Error).message of a failed invocation and of a failed JSON.parse
ModelErrorMessage == <<"model invocation failed">>
SyntaxErrorMessage == <<"Unexpected token in JSON">>
TypeErrorMessage == <<"Cannot read properties of undefined">>

\* one invocation of openai.chat.completions.create: the generator issuing
\* it, which of its invocations it is, and the content the prompt embeds
Call(gen, tag, text) == [gen |-> gen, tag |-> tag, text |-> text]

\* how one invocation settled: rejected ("error"), or resolved with a text
\* that JSON.parse rejects ("unparseable") or accepts ("json"), and then
\* the object parsed
Reply(gen, tag, r) == [gen |-> gen, tag |-> tag, kind |-> r.kind, json |-> r.json]

\* the generators that invoke the model
Generators == {"script", "seo", "thumbnails", "imagePrompts", "assets"}

\* the replies with one more, to generator gen
Replying(gen, tag, r) ==
    [replies EXCEPT ![gen] = Append(@, Reply(gen, tag, r))]

-----------------------------------------------------------------------------
(* generateScript, openai.ts:119-287 *)

Pending == [status |-> "pending", value |-> None, error |-> << >>]
Fulfilled(v) == [status |-> "fulfilled", value |-> Some(v), error |-> << >>]
Rejected(msg) == [status |-> "rejected", value |-> None, error |-> msg]

\* the catch of line 284-286
ScriptFailure(msg) == Rejected(<<"Failed to generate script: ">> \o msg)

\* line 278
QuantityMessage(n, got) ==
    <<"Script generation failed to produce ", ToString(n),
      " items as requested (got ", ToString(got), "). Please try again.">>

\* NeedsRetry as if line 247 were missing: any validated attempt is retried
NeedsRetry_IgnoringCount(q, parsed) ==
    /\ Truthy(q)
    /\ Present(parsed.mainContent)

\* NeedsRetry as if line 247 read `actualCount > requestedQuantity`
NeedsRetry_OnlyWhenMore(q, parsed) ==
    /\ Truthy(q)
    /\ Present(parsed.mainContent)
    /\ Len(Val(parsed.mainContent)) > Val(q)

\* NeedsRetry as if line 245 read `requestedQuantity !== undefined`
NeedsRetry_NullCompared(q, parsed) ==
    /\ Present(parsed.mainContent)
    /\ ~Present(q) \/ Len(Val(parsed.mainContent)) # Val(q)

\* lines 245-247: the first attempt is validated and has the wrong count
NeedsRetry(q, parsed) ==
    /\ Truthy(q)
    /\ Present(parsed.mainContent)
    /\ Len(Val(parsed.mainContent)) # Val(q)

\* AfterRetry as if line 273 returned parsedScript
AfterRetry_ReturnsFirst(q, first, retry) ==
    IF Present(retry.mainContent) /\ Len(Val(retry.mainContent)) = Val(q)
    THEN Fulfilled(first)
    ELSE IF Present(retry.mainContent) /\ Len(Val(retry.mainContent)) # Val(q)
    THEN ScriptFailure(QuantityMessage(Val(q), Len(Val(retry.mainContent))))
    ELSE Fulfilled(first)

\* AfterRetry as if line 278 reported actualCount, the first attempt's count
AfterRetry_FirstCount(q, first, retry) ==
    IF Present(retry.mainContent) /\ Len(Val(retry.mainContent)) = Val(q)
    THEN Fulfilled(retry)
    ELSE IF Present(retry.mainContent) /\ Len(Val(retry.mainContent)) # Val(q)
    THEN ScriptFailure(QuantityMessage(Val(q), Len(Val(first.mainContent))))
    ELSE Fulfilled(first)

\* lines 271-283 once the retry has been parsed
AfterRetry(q, first, retry) ==
    IF Present(retry.mainContent) /\ Len(Val(retry.mainContent)) = Val(q)
    THEN Fulfilled(retry)
    ELSE IF Present(retry.mainContent) /\ Len(Val(retry.mainContent)) # Val(q)
    THEN ScriptFailure(QuantityMessage(Val(q), Len(Val(retry.mainContent))))
    ELSE Fulfilled(first)

\* lines 90-99: the five buckets and the default, in hundredths of a minute
\* (1.25 minutes is 125)
getDurationInMinutes(v) ==
    CASE v = "75 seconds (Short)" -> 125
      [] v = "3-5 minutes (Standard)" -> 400
      [] v = "8-12 minutes (Extended)" -> 1000
      [] v = "15-20 minutes (Deep Dive)" -> 1750
      [] v = "20+ minutes (Comprehensive)" -> 2500
      [] OTHER -> 400

\* Math.round of n / d for n, d > 0: halves go up
Round(n, d) == (2 * n + d) \div (2 * d)

\* lines 101-104: Math.round(minutes * 150)
getTargetWords(v) == Round(getDurationInMinutes(v) * 150, 100)

\* the own keys of toneMap, lines 108-114
ToneMapKeys ==
    {"informative", "casual", "comedic", "storytelling", "persuasive",
     "empathetic", "experimental"}

\* the keys an object literal inherits from Object.prototype
ObjectPrototypeKeys ==
    {"constructor", "toString", "toLocaleString", "valueOf",
     "hasOwnProperty", "isPrototypeOf", "propertyIsEnumerable", "__proto__",
     "__defineGetter__", "__defineSetter__", "__lookupGetter__",
     "__lookupSetter__"}

\* the paragraph of guidance toneMap holds under key t
Guidance(t) == [kind |-> "guidance", of |-> t]

\* the member of Object.prototype found under key t: a function or an object
Inherited(t) == [kind |-> "inherited", of |-> t]

\* toneMap[tone]: a property read, own keys first, then the prototype's
toneMap(t) ==
    IF t \in ToneMapKeys THEN Some(Guidance(t))
    ELSE IF t \in ObjectPrototypeKeys THEN Some(Inherited(t))
    ELSE None

\* lines 106-117: toneMap[tone] || toneMap.informative; every value toneMap
\* can yield is truthy
getToneInstructions(t) ==
    IF Present(toneMap(t)) THEN Val(toneMap(t)) ELSE Val(toneMap("informative"))

\* a parameter declared `tone: string = "informative"`, given argument a
DefaultTone(a) == IF Present(a) THEN Val(a) ELSE "informative"

\* lines 136-151: the directive, << >> for the empty string
QuantityInstruction(q, qa) ==
    IF Truthy(q)
    THEN Some([phrasing |-> IF qa THEN "question and answer pairs" ELSE "items",
               exactly |-> Val(q)])
    ELSE None

\* lines 153-224: what the prompt is built from
ScriptPrompt(t, v, tn, q, qa) ==
    [topic |-> t,
     targetWords |-> getTargetWords(v),
     durationMinutes |-> getDurationInMinutes(v),
     tone |-> tn,
     toneInstruction |-> getToneInstructions(tn),
     quantityInstruction |-> QuantityInstruction(q, qa)]

\* lines 119-240: the synchronous part of a call with tone argument a, up to
\* the first await
StartScript(a) ==
    /\ scriptPc = "idle"
    /\ requestedQuantity' = ExtractQuantity(topic)
    /\ isQAFormat' = DetectQA(topic)
    /\ prompt' = Some(ScriptPrompt(topic, videoLength, DefaultTone(a),
                                   ExtractQuantity(topic), DetectQA(topic)))
    /\ calls' = Append(calls, Call("script", "first", topic))
    /\ scriptPc' = "first"
    /\ UNCHANGED << parsedScript, retryParsed, scriptOutcome >>

\* a direct call of the exported generateScript
CallGenerateScript ==
    /\ entry = "generateScript"
    /\ StartScript(tone)
    /\ UNCHANGED << entry, topic, videoLength, tone, selectedContentTypes, rawScript, replies >>
    /\ UNCHANGED routeVars
    /\ UNCHANGED coordVars

\* lines 242-269 and 283-286: the first invocation settles with r
FirstAttempt(r) ==
    /\ scriptPc = "first"
    /\ IF r.kind = "error"
       THEN /\ scriptOutcome' = ScriptFailure(ModelErrorMessage)
            /\ scriptPc' = "done"
            /\ UNCHANGED << parsedScript, calls >>
       ELSE IF r.kind = "unparseable"
       THEN /\ scriptOutcome' = ScriptFailure(SyntaxErrorMessage)
            /\ scriptPc' = "done"
            /\ UNCHANGED << parsedScript, calls >>
       ELSE /\ parsedScript' = r.json
            /\ IF NeedsRetry(requestedQuantity, Val(r.json))
               THEN /\ calls' = Append(calls, Call("script", "retry", topic))
                    /\ scriptPc' = "retry"
                    /\ UNCHANGED scriptOutcome
               ELSE /\ scriptOutcome' = Fulfilled(Val(r.json))
                    /\ scriptPc' = "done"
                    /\ UNCHANGED calls
    /\ replies' = Replying("script", "first", r)
    /\ UNCHANGED << requestedQuantity, isQAFormat, prompt, retryParsed >>

FirstAttemptSettles ==
    /\ \E r \in Outcomes(ScriptObjects(1)) : FirstAttempt(r)
    /\ UNCHANGED << entry, topic, videoLength, tone, selectedContentTypes, rawScript >>
    /\ UNCHANGED routeVars
    /\ UNCHANGED coordVars

\* RetryAttempt as if a failed retry invocation fell back on the first attempt
RetryAttempt_FallsBackToFirst(r) ==
    /\ scriptPc = "retry"
    /\ scriptPc' = "done"
    /\ IF r.kind = "error"
       THEN /\ scriptOutcome' = Fulfilled(Val(parsedScript))
            /\ UNCHANGED retryParsed
       ELSE IF r.kind = "unparseable"
       THEN /\ scriptOutcome' = ScriptFailure(SyntaxErrorMessage)
            /\ UNCHANGED retryParsed
       ELSE /\ retryParsed' = r.json
            /\ scriptOutcome' =
                   AfterRetry(requestedQuantity, Val(parsedScript), Val(r.json))
    /\ replies' = Replying("script", "retry", r)
    /\ UNCHANGED << requestedQuantity, isQAFormat, prompt, parsedScript, calls >>

\* lines 271-286: the retry invocation settles with r
RetryAttempt(r) ==
    /\ scriptPc = "retry"
    /\ scriptPc' = "done"
    /\ IF r.kind = "error"
       THEN /\ scriptOutcome' = ScriptFailure(ModelErrorMessage)
            /\ UNCHANGED retryParsed
       ELSE IF r.kind = "unparseable"
       THEN /\ scriptOutcome' = ScriptFailure(SyntaxErrorMessage)
            /\ UNCHANGED retryParsed
       ELSE /\ retryParsed' = r.json
            /\ scriptOutcome' =
                   AfterRetry(requestedQuantity, Val(parsedScript), Val(r.json))
    /\ replies' = Replying("script", "retry", r)
    /\ UNCHANGED << requestedQuantity, isQAFormat, prompt, parsedScript, calls >>

RetryAttemptSettles ==
    /\ \E r \in Outcomes(ScriptObjects(2)) : RetryAttempt(r)
    /\ UNCHANGED << entry, topic, videoLength, tone, selectedContentTypes, rawScript >>
    /\ UNCHANGED routeVars
    /\ UNCHANGED coordVars

-----------------------------------------------------------------------------
(* Auxiliary generators, openai.ts:289-623 *)

TaskNames == {"seo", "thumbnails", "imagePrompts", "assets"}

\* JSON objects the model may answer the SEO prompt with
SeoObjects ==
    { [titles |-> Some(<< <<"t">> >>), description |-> Some(<<"d">>),
       tags |-> Some(<< <<"g">> >>)],
      [titles |-> None, description |-> None, tags |-> None] }

\* JSON objects the model may answer the thumbnail prompt with
ThumbnailObjects ==
    { [conceptName |-> Some(<<"n">>), description |-> Some(<<"d">>),
       curiosityWords |-> Some(<< <<"w">> >>), aiPrompts |-> Some(<< <<"p">> >>)],
      [conceptName |-> None, description |-> None, curiosityWords |-> None,
       aiPrompts |-> None] }

\* JSON objects the model may answer the production-assets prompt with:
\* both collections, the object {}, or one carrying an imagePrompts key too
AssetObjects ==
    { [musicPrompts |-> Some(<< <<"u">> >>), bulletPoints |-> Some(<< <<"b">> >>),
       imagePrompts |-> None],
      [musicPrompts |-> None, bulletPoints |-> None, imagePrompts |-> None],
      [musicPrompts |-> Some(<< <<"u">> >>), bulletPoints |-> Some(<< <<"b">> >>),
       imagePrompts |-> Some(<< >>)] }

\* JSON objects the model may answer one section's image prompt with
ImagePromptObjects ==
    { [imagePrompts |-> Some(<< <<"p">> >>)] }

\* `script || topic` of lines 290, 348 and 418
ContentToAnalyze(t, script) ==
    IF Present(script) /\ Val(script) # << >> THEN Val(script) ELSE t

\* lines 325-345, 395-415, 466-486: the one invocation of a generator settles
AuxResult(r, prefix) ==
    IF r.kind = "error" THEN Rejected(<<prefix>> \o ModelErrorMessage)
    ELSE IF r.kind = "unparseable" THEN Rejected(<<prefix>> \o SyntaxErrorMessage)
    ELSE Fulfilled(Val(r.json))

RECURSIVE SplitBlankLines(_)
\* rawScript.split('\n\n')
SplitBlankLines(t) ==
    LET at == { i \in 1..(Len(t) - 1) : t[i] = "\n" /\ t[i + 1] = "\n" }
    IN  IF at = {} THEN << t >>
        ELSE << SubSeq(t, 1, Min(at) - 1) >>
                 \o SplitBlankLines(SubSeq(t, Min(at) + 2, Len(t)))

\* String.prototype.trim
Trim(t) ==
    LET solid == { i \in 1..Len(t) : t[i] \notin Whitespace }
    IN  IF solid = {} THEN << >> ELSE SubSeq(t, Min(solid), Max(solid))

\* RawSections as if the filter of line 493 were missing
RawSections_KeepsEmptyBlocks(t) ==
    LET parts == SplitBlankLines(t)
        paragraphs == [i \in 1..Len(parts) |-> Trim(parts[i])]
    IN  [i \in 1..Len(paragraphs) |->
            [name |-> "Paragraph " \o ToString(i), content |-> paragraphs[i]]]

\* lines 490-499: the trimmed non-empty paragraphs, named Paragraph 1..k
RawSections(t) ==
    LET parts == SplitBlankLines(t)
        paragraphs == SelectSeq([i \in 1..Len(parts) |-> Trim(parts[i])],
                                LAMBDA x : Len(x) > 0)
    IN  [i \in 1..Len(paragraphs) |->
            [name |-> "Paragraph " \o ToString(i), content |-> paragraphs[i]]]

\* StructuredSections as if the Conclusion entry of line 564 were missing
StructuredSections_NoConclusion(script) ==
    LET main == Val(script.mainContent)
    IN  << [name |-> "Hook", content |-> Val(script.hook).content],
           [name |-> "Introduction", content |-> Val(script.introduction).content] >>
        \o [i \in 1..Len(main) |->
               [name |-> "Main Content " \o ToString(i), content |-> main[i].content]]

\* lines 557-565
StructuredSections(script) ==
    LET main == Val(script.mainContent)
    IN  << [name |-> "Hook", content |-> Val(script.hook).content],
           [name |-> "Introduction", content |-> Val(script.introduction).content] >>
        \o [i \in 1..Len(main) |->
               [name |-> "Main Content " \o ToString(i), content |-> main[i].content]]
        \o << [name |-> "Conclusion", content |-> Val(script.conclusion).content] >>

\* SectionResult as if the catch of lines 544-550 / 613-619 pushed an entry
\* without the section's text
SectionResult_FailureLosesText(section, r) ==
    [section |-> section.name,
     content |-> IF r.kind = "json" THEN section.content ELSE << >>,
     prompts |-> IF r.kind = "json" /\ Present(Val(r.json).imagePrompts)
                 THEN Val(Val(r.json).imagePrompts)
                 ELSE << >>]

\* lines 537-550 and 606-619: the entry pushed on `results` for a section
SectionResult(section, r) ==
    [section |-> section.name,
     content |-> section.content,
     prompts |-> IF r.kind = "json" /\ Present(Val(r.json).imagePrompts)
                 THEN Val(Val(r.json).imagePrompts)
                 ELSE << >>]

-----------------------------------------------------------------------------
(* The coordinators, openai.ts:625-757 *)

CoordPrefix ==
    IF entry = "generateCompleteContent"
    THEN "Failed to generate complete content: "
    ELSE "Failed to generate content from script: "

Includes(kind) == kind \in selectedContentTypes

\* the condition of lines 680 and 739
WantsAssets == Includes("assets") \/ Includes("music") \/ Includes("bulletPoints")

RECURSIVE JoinTexts(_)
\* Array.prototype.join(' ')
JoinTexts(ts) ==
    IF ts = << >> THEN << >>
    ELSE IF Len(ts) = 1 THEN ts[1]
    ELSE ts[1] \o <<" ">> \o JoinTexts(Tail(ts))

\* line 641 evaluates without a TypeError
HasAllParts(script) ==
    /\ Present(script.hook)
    /\ Present(script.introduction)
    /\ Present(script.mainContent)
    /\ Present(script.conclusion)

\* lines 640-642
ScriptText(script) ==
    LET main == Val(script.mainContent)
    IN  Val(script.hook).content \o <<" ">> \o Val(script.introduction).content
            \o <<" ">> \o JoinTexts([i \in 1..Len(main) |-> main[i].content])
            \o <<" ">> \o Val(script.conclusion).content

\* lines 674-675 and 732-734: the then-callback of the image-prompts task
WithImagePrompts(c, prompts) ==
    LET base == IF Present(c.assets) THEN Val(c.assets)
                ELSE [musicPrompts |-> Some(<< >>), bulletPoints |-> Some(<< >>),
                      imagePrompts |-> None]
    IN  [c EXCEPT !.assets = Some([base EXCEPT !.imagePrompts = Some(prompts)])]

\* the object spread { ...a, ...b }
Spread(a, b) == [k \in DOMAIN a |-> IF Present(b[k]) THEN b[k] ELSE a[k]]

\* lines 683-687 and 742-746: the then-callback of the production-assets task
WithAssets(c, assets) ==
    IF Present(c.assets)
    THEN [c EXCEPT !.assets = Some(Spread(Val(c.assets), assets))]
    ELSE [c EXCEPT !.assets = Some(assets)]

AllSettledWell(t) == \A n \in TaskNames : t[n] \in {"none", "fulfilled"}

\* Join as if the await of line 693 / 751 never resumed on fulfilment
Join_NeverResumes(t, c, failure) ==
    IF coordPc # "joining"
    THEN UNCHANGED << coordPc, outcome >>
    ELSE IF failure # << >>
    THEN /\ coordPc' = "thrown"
         /\ outcome' = Rejected(<<CoordPrefix>> \o failure)
    ELSE UNCHANGED << coordPc, outcome >>

\* Join as if a rejection arriving after the coordinator has thrown replaced
\* the error already raised
Join_LastFailureWins(t, c, failure) ==
    IF coordPc \notin {"joining", "thrown"}
    THEN UNCHANGED << coordPc, outcome >>
    ELSE IF failure # << >>
    THEN /\ coordPc' = "thrown"
         /\ outcome' = Rejected(<<CoordPrefix>> \o failure)
    ELSE IF coordPc = "joining" /\ AllSettledWell(t)
    THEN /\ coordPc' = "returned"
         /\ outcome' = Fulfilled(c)
    ELSE UNCHANGED << coordPc, outcome >>

\* Join as if the coordinator awaited Promise.allSettled and returned the
\* package whatever the tasks did
Join_AllSettled(t, c, failure) ==
    IF coordPc # "joining"
    THEN UNCHANGED << coordPc, outcome >>
    ELSE IF \A n \in TaskNames : t[n] # "pending"
    THEN /\ coordPc' = "returned"
         /\ outcome' = Fulfilled(c)
    ELSE UNCHANGED << coordPc, outcome >>

\* Join as if the coordinator awaited Promise.race: the first task to settle
\* decides
Join_FirstSettled(t, c, failure) ==
    IF coordPc # "joining"
    THEN UNCHANGED << coordPc, outcome >>
    ELSE IF failure # << >>
    THEN /\ coordPc' = "thrown"
         /\ outcome' = Rejected(<<CoordPrefix>> \o failure)
    ELSE /\ coordPc' = "returned"
         /\ outcome' = Fulfilled(c)

\* Promise.all and lines 693-698 / 751-756 once a task has settled, t and c
\* being the tasks and the content after it: the first rejection is thrown
\* at once, the package is returned when every promise is fulfilled, and a
\* promise settling after the coordinator has thrown changes nothing
Join(t, c, failure) ==
    IF coordPc # "joining"
    THEN UNCHANGED << coordPc, outcome >>
    ELSE IF failure # << >>
    THEN /\ coordPc' = "thrown"
         /\ outcome' = Rejected(<<CoordPrefix>> \o failure)
    ELSE IF AllSettledWell(t)
    THEN /\ coordPc' = "returned"
         /\ outcome' = Fulfilled(c)
    ELSE UNCHANGED << coordPc, outcome >>

\* lines 645-693 and 711-751: every requested generator is started, each
\* running up to its first await, and the coordinator awaits Promise.all
Launch(script, sections, c) ==
    LET analyze == ContentToAnalyze(topic, script)
        wantIP == Includes("imagePrompts")
        t == [seo |-> IF Includes("seo") THEN "pending" ELSE "none",
              thumbnails |-> IF Includes("thumbnails") THEN "pending" ELSE "none",
              imagePrompts |-> IF ~wantIP THEN "none"
                               ELSE IF sections = << >> THEN "fulfilled"
                               ELSE "pending",
              assets |-> IF WantsAssets THEN "pending" ELSE "none"]
        c2 == IF wantIP /\ sections = << >> THEN WithImagePrompts(c, << >>) ELSE c
        issued ==
            (IF Includes("seo") THEN << Call("seo", "", analyze) >> ELSE << >>)
            \o (IF Includes("thumbnails")
                THEN << Call("thumbnails", "", analyze) >> ELSE << >>)
            \o (IF wantIP /\ sections # << >>
                THEN << Call("imagePrompts", sections[1].name, sections[1].content) >>
                ELSE << >>)
            \o (IF WantsAssets THEN << Call("assets", "", analyze) >> ELSE << >>)
    IN  /\ tasks' = t
        /\ content' = c2
        /\ calls' = calls \o issued
        /\ ipSections' = IF wantIP THEN sections ELSE << >>
        /\ ipResults' = << >>
        /\ coordPc' = IF AllSettledWell(t) THEN "returned" ELSE "joining"
        /\ outcome' = IF AllSettledWell(t) THEN Fulfilled(c2) ELSE outcome

\* generateCompleteContent is called with tone argument a: lines 632-637,
\* and 640-695 when no script is requested
GenerateCompleteContent(a) ==
    /\ entry = "generateCompleteContent"
    /\ coordPc = "idle"
    /\ IF Includes("script")
       THEN /\ StartScript(Some(DefaultTone(a)))
            /\ coordPc' = "awaitScript"
            /\ UNCHANGED << content, tasks, ipSections, ipResults, outcome >>
       ELSE /\ Launch(None, RawSections(topic), content)
            /\ UNCHANGED scriptVars
    /\ UNCHANGED << entry, topic, videoLength, tone, selectedContentTypes, rawScript, replies >>
    /\ UNCHANGED routeVars

\* ScriptAwaited as if a failed script were swallowed and the auxiliary
\* generators run on the topic alone
ScriptAwaited_SwallowsFailure ==
    /\ coordPc = "awaitScript"
    /\ scriptOutcome.status # "pending"
    /\ IF scriptOutcome.status = "rejected"
       THEN Launch(None, RawSections(topic), content)
       ELSE LET script == Val(scriptOutcome.value)
                c == [content EXCEPT !.script = Some(script)]
            IN  IF ~HasAllParts(script)
                THEN /\ content' = c
                     /\ coordPc' = "thrown"
                     /\ outcome' = Rejected(<<CoordPrefix>> \o TypeErrorMessage)
                     /\ UNCHANGED << tasks, ipSections, ipResults, calls >>
                ELSE Launch(Some(ScriptText(script)), StructuredSections(script), c)
    /\ UNCHANGED << entry, topic, videoLength, tone, selectedContentTypes, rawScript, replies >>
    /\ UNCHANGED routeVars
    /\ UNCHANGED scriptVars

\* lines 637-695 once generateScript has settled
ScriptAwaited ==
    /\ coordPc = "awaitScript"
    /\ scriptOutcome.status # "pending"
    /\ IF scriptOutcome.status = "rejected"
       THEN /\ coordPc' = "thrown"
            /\ outcome' = Rejected(<<CoordPrefix>> \o scriptOutcome.error)
            /\ UNCHANGED << content, tasks, ipSections, ipResults, calls >>
       ELSE LET script == Val(scriptOutcome.value)
                c == [content EXCEPT !.script = Some(script)]
            IN  IF ~HasAllParts(script)
                THEN /\ content' = c
                     /\ coordPc' = "thrown"
                     /\ outcome' = Rejected(<<CoordPrefix>> \o TypeErrorMessage)
                     /\ UNCHANGED << tasks, ipSections, ipResults, calls >>
                ELSE Launch(Some(ScriptText(script)), StructuredSections(script), c)
    /\ UNCHANGED << entry, topic, videoLength, tone, selectedContentTypes, rawScript, replies >>
    /\ UNCHANGED routeVars
    /\ UNCHANGED scriptVars

\* GenerateContentFromScript as if the generators were given the title alone
GenerateContentFromScript_AnalyzesTitle ==
    /\ entry = "generateContentFromScript"
    /\ coordPc = "idle"
    /\ Launch(None, RawSections(topic), content)
    /\ UNCHANGED << entry, topic, videoLength, tone, selectedContentTypes, rawScript, replies >>
    /\ UNCHANGED routeVars
    /\ UNCHANGED scriptVars

\* generateContentFromScript is called: lines 708-753
GenerateContentFromScript ==
    /\ entry = "generateContentFromScript"
    /\ coordPc = "idle"
    /\ Launch(Some(rawScript), RawSections(rawScript), content)
    /\ UNCHANGED << entry, topic, videoLength, tone, selectedContentTypes, rawScript, replies >>
    /\ UNCHANGED routeVars
    /\ UNCHANGED scriptVars

\* WithSeo as if the callback of line 650 filled the thumbnails field too
WithSeo_AlsoThumbnails(c, seo) ==
    [c EXCEPT !.seo = Some(seo), !.thumbnails = Some(seo)]

WithSeo(c, seo) == [c EXCEPT !.seo = Some(seo)]
WithThumbnails(c, thumbnails) == [c EXCEPT !.thumbnails = Some(thumbnails)]

\* the then-callback of a single-invocation task: the field it writes
Written(name, c, value) ==
    CASE name = "seo" -> WithSeo(c, value)
      [] name = "thumbnails" -> WithThumbnails(c, value)
      [] name = "assets" -> WithAssets(c, value)

\* SettleTask as if a generator whose invocation failed invoked the model
\* once more before giving up
SettleTask_RetriesOnce(name, r, prefix) ==
    /\ tasks[name] = "pending"
    /\ IF r.kind = "error" /\ replies[name] = << >>
       THEN /\ calls' = Append(calls, Call(name, "", topic))
            /\ UNCHANGED << tasks, content, coordPc, outcome >>
       ELSE /\ LET result == AuxResult(r, prefix)
                   t == [tasks EXCEPT ![name] = result.status]
                   c == IF result.status = "fulfilled"
                        THEN Written(name, content, Val(result.value))
                        ELSE content
               IN  /\ tasks' = t
                   /\ content' = c
                   /\ Join(t, c, result.error)
            /\ UNCHANGED calls
    /\ replies' = Replying(name, "", r)
    /\ UNCHANGED << ipSections, ipResults >>
    /\ UNCHANGED << entry, topic, videoLength, tone, selectedContentTypes, rawScript >>
    /\ UNCHANGED routeVars
    /\ UNCHANGED scriptVars

\* a single-invocation task settles: its promise, its then-callback and the
\* coordinator's reaction
SettleTask(name, r, prefix) ==
    /\ tasks[name] = "pending"
    /\ LET result == AuxResult(r, prefix)
           t == [tasks EXCEPT ![name] = result.status]
           c == IF result.status = "fulfilled"
                THEN Written(name, content, Val(result.value)) ELSE content
       IN  /\ tasks' = t
           /\ content' = c
           /\ Join(t, c, result.error)
    /\ replies' = Replying(name, "", r)
    /\ UNCHANGED << calls, ipSections, ipResults >>
    /\ UNCHANGED << entry, topic, videoLength, tone, selectedContentTypes, rawScript >>
    /\ UNCHANGED routeVars
    /\ UNCHANGED scriptVars

\* generateSEOPackage settles, lines 341-344 and 649-651 / 715-717
SeoSettles ==
    /\ Includes("seo")
    /\ \E r \in Outcomes(SeoObjects) :
          SettleTask("seo", r, "Failed to generate SEO package: ")

\* generateThumbnailConcepts settles, lines 411-414 and 657-659 / 723-725
ThumbnailsSettles ==
    /\ Includes("thumbnails")
    /\ \E r \in Outcomes(ThumbnailObjects) :
          SettleTask("thumbnails", r, "Failed to generate thumbnail concepts: ")

\* generateProductionAssets settles, lines 482-485 and 682-688 / 741-747
AssetsSettles ==
    /\ WantsAssets
    /\ \E r \in Outcomes(AssetObjects) :
          SettleTask("assets", r, "Failed to generate production assets: ")

\* the invocation for the current section settles: lines 537-553 / 606-622,
\* then the next section's invocation, or the then-callback of 673-676 /
\* 731-735 and the coordinator's reaction
ImagePromptSettles ==
    /\ tasks["imagePrompts"] = "pending"
    /\ \E r \in Outcomes(ImagePromptObjects) :
          LET i == Len(ipResults) + 1
              results == Append(ipResults, SectionResult(ipSections[i], r))
          IN  /\ ipResults' = results
              /\ replies' = Replying("imagePrompts", ipSections[i].name, r)
              /\ IF i < Len(ipSections)
                 THEN /\ calls' = Append(calls,
                            Call("imagePrompts", ipSections[i + 1].name,
                                 ipSections[i + 1].content))
                      /\ UNCHANGED << tasks, content, coordPc, outcome >>
                 ELSE LET t == [tasks EXCEPT !["imagePrompts"] = "fulfilled"]
                          c == WithImagePrompts(content, results)
                      IN  /\ tasks' = t
                          /\ content' = c
                          /\ UNCHANGED calls
                          /\ Join(t, c, << >>)
    /\ UNCHANGED ipSections
    /\ UNCHANGED << entry, topic, videoLength, tone, selectedContentTypes, rawScript >>
    /\ UNCHANGED routeVars
    /\ UNCHANGED scriptVars

-----------------------------------------------------------------------------
(* The request *)

\* nothing sent yet
NoResponse == [status |-> 0, message |-> << >>]

NoTasks == [t \in {"seo", "thumbnails", "imagePrompts", "assets"} |-> "none"]

EmptyContent == [script |-> None, seo |-> None, thumbnails |-> None, assets |-> None]

InitIdle ==
    /\ scriptPc = "idle"
    /\ requestedQuantity = None
    /\ isQAFormat = FALSE
    /\ prompt = None
    /\ parsedScript = None
    /\ retryParsed = None
    /\ scriptOutcome = Pending
    /\ calls = << >>
    /\ replies = [g \in Generators |-> << >>]
    /\ coordPc = "idle"
    /\ content = EmptyContent
    /\ tasks = NoTasks
    /\ ipSections = << >>
    /\ ipResults = << >>
    /\ outcome = Pending
    /\ project = None
    /\ res = NoResponse

-----------------------------------------------------------------------------
(* The routes, routes.ts:100-180.  Storage calls are taken to succeed. *)

\* generateContentSchema / uploadScriptSchema: topic (title) and script are
\* strings of at least one character, selectedContentTypes any array of
\* strings
SchemaAccepts ==
    IF entry = "generateCompleteContent"
    THEN Len(topic) >= 1
    ELSE Len(topic) >= 1 /\ Len(rawScript) >= 1

\* the message of the ZodError
SchemaMessage ==
    IF entry = "generateCompleteContent" THEN "Topic is required"
    ELSE IF Len(topic) < 1 THEN "Title is required"
    ELSE "Script is required"

\* the prefix of the 500 response, lines 137 and 178
RoutePrefix ==
    IF entry = "generateCompleteContent"
    THEN "Failed to generate content: "
    ELSE "Failed to generate content from script: "

\* the keys generateContentSchema declares, schema.ts:50-55
generateContentSchema == {"topic", "videoLength", "contentTemplate", "selectedContentTypes"}

\* the body of the request; tone is << >> when the body has none
Body ==
    [topic |-> Some(topic), videoLength |-> Some(videoLength), tone |-> tone,
     selectedContentTypes |-> Some(selectedContentTypes)]

\* z.object(...).parse(body): the keys the schema does not declare are
\* stripped from the result
Parse(schema, body) == [k \in (DOMAIN body) \cap schema |-> body[k]]

\* const { key } = object: undefined when the object has no such key
Destructured(object, key) ==
    IF key \in DOMAIN object THEN object[key] ELSE None

\* lines 101-117 / 142-158: authentication, the schema, createProject
PostRequest ==
    /\ res.status = 0
    /\ ~Present(project)
    /\ IF ~authenticated
       THEN /\ res' = [status |-> 401, message |-> << >>]
            /\ UNCHANGED project
       ELSE IF ~SchemaAccepts
       THEN /\ res' = [status |-> 500, message |-> <<RoutePrefix, SchemaMessage>>]
            /\ UNCHANGED project
       ELSE /\ project' = Some([status |-> "in_progress",
                                generatedContent |-> None])
            /\ UNCHANGED res
    /\ UNCHANGED << entry, topic, videoLength, tone, selectedContentTypes, rawScript, authenticated >>
    /\ UNCHANGED << calls, replies >>
    /\ UNCHANGED scriptVars
    /\ UNCHANGED coordVars

\* POST /api/generate/ai-content
PostAiContent ==
    /\ entry = "generateCompleteContent"
    /\ PostRequest

\* POST /api/generate/script-content
PostScriptContent ==
    /\ entry = "generateContentFromScript"
    /\ PostRequest

\* lines 119-126: the project exists, the route calls generateCompleteContent
AiContentGenerates ==
    /\ Present(project)
    /\ GenerateCompleteContent(
           Destructured(Parse(generateContentSchema, Body), "tone"))

\* lines 160-167: the project exists, the route calls
\* generateContentFromScript
ScriptContentGenerates ==
    /\ Present(project)
    /\ GenerateContentFromScript

\* lines 128-134 / 169-175: the package is stored, the project completed
RouteCompletes ==
    /\ res.status = 0
    /\ Present(project)
    /\ outcome.status = "fulfilled"
    /\ project' = Some([status |-> "completed",
                        generatedContent |-> outcome.value])
    /\ res' = [status |-> 200, message |-> << >>]
    /\ UNCHANGED << entry, topic, videoLength, tone, selectedContentTypes, rawScript, authenticated >>
    /\ UNCHANGED << calls, replies >>
    /\ UNCHANGED scriptVars
    /\ UNCHANGED coordVars

\* lines 135-138 / 176-179: the catch answers 500 and touches nothing else
RouteFails ==
    /\ res.status = 0
    /\ Present(project)
    /\ outcome.status = "rejected"
    /\ res' = [status |-> 500, message |-> <<RoutePrefix>> \o outcome.error]
    /\ UNCHANGED << entry, topic, videoLength, tone, selectedContentTypes, rawScript, authenticated >>
    /\ UNCHANGED project
    /\ UNCHANGED << calls, replies >>
    /\ UNCHANGED scriptVars
    /\ UNCHANGED coordVars

\* generateScript called on its own
InitScript ==
    /\ entry = "generateScript"
    /\ topic \in ScriptTopics
    /\ selectedContentTypes = {}
    /\ rawScript = << >>
    /\ authenticated = TRUE
    /\ videoLength = "3-5 minutes (Standard)"
    /\ tone = None
    /\ InitIdle

NextScript ==
    \/ CallGenerateScript
    \/ FirstAttemptSettles
    \/ RetryAttemptSettles

SpecScript == InitScript /\ [][NextScript]_vars

\* generateScript called on its own and followed up to its first await,
\* which is as far as the extraction of lines 123-128 reaches
InitExtract ==
    /\ entry = "generateScript"
    /\ topic \in Topics
    /\ selectedContentTypes = {}
    /\ rawScript = << >>
    /\ authenticated = TRUE
    /\ videoLength = "3-5 minutes (Standard)"
    /\ tone = None
    /\ InitIdle

SpecExtract == InitExtract /\ [][CallGenerateScript]_vars

\* the kinds a request may list; "captions" is one no generator knows
Kinds ==
    {"script", "seo", "thumbnails", "imagePrompts", "assets", "music",
     "bulletPoints", "captions"}

Selections == { S \in SUBSET Kinds : Cardinality(S) <= MaxKinds }

\* "2 tips", "save", and the empty string
CoordTopics ==
    { <<"2", " ", "t", "i", "p", "s">>, <<"s", "a", "v", "e">>, << >> }

\* uploaded scripts: one paragraph, two paragraphs, a blank-line run, a
\* script that is blank, and the empty string
RawScripts ==
    { <<"a">>, <<"a", "\n", "\n", "b">>, <<"a", "\n", "\n", "\n", " ">>,
      <<" ">>, << >> }

\* the characters of an uploaded script: a letter, a line feed, a space
RawAlphabet == {"a", "\n", " "}

\* every uploaded script the schema accepts (script: z.string().min(1))
RawTexts ==
    UNION { [1..n -> RawAlphabet] : n \in 1..MaxRawLen }

\* generateContentFromScript asked for image prompts only
InitRaw ==
    /\ entry = "generateContentFromScript"
    /\ topic = <<"s", "a", "v", "e">>
    /\ rawScript \in RawTexts
    /\ selectedContentTypes = {"imagePrompts"}
    /\ authenticated = TRUE
    /\ videoLength = "3-5 minutes (Standard)"
    /\ tone = None
    /\ InitIdle

NextRaw ==
    \/ GenerateContentFromScript
    \/ ImagePromptSettles

SpecRaw == InitRaw /\ [][NextRaw]_vars

\* a request to one of the two routes
Init ==
    /\ \/ /\ entry = "generateCompleteContent"
          /\ topic \in CoordTopics
          /\ rawScript = << >>
       \/ /\ entry = "generateContentFromScript"
          /\ topic = <<"s", "a", "v", "e">>
          /\ rawScript \in RawScripts
    /\ selectedContentTypes \in Selections
    /\ videoLength = "3-5 minutes (Standard)"
    /\ tone = None
    /\ authenticated \in BOOLEAN
    /\ InitIdle

Next ==
    \/ PostAiContent
    \/ AiContentGenerates
    \/ FirstAttemptSettles
    \/ RetryAttemptSettles
    \/ ScriptAwaited
    \/ PostScriptContent
    \/ ScriptContentGenerates
    \/ SeoSettles
    \/ ThumbnailsSettles
    \/ AssetsSettles
    \/ ImagePromptSettles
    \/ RouteCompletes
    \/ RouteFails

Spec == Init /\ [][Next]_vars

\* every model invocation settles and every continuation is run: a step
\* that can be taken is eventually taken
Fairness == WF_vars(Next)

\* the requests of Init with the kinds the generators tell apart and, for
\* generateCompleteContent, the topic that asks for a quantity
InitLive ==
    /\ Init
    /\ selectedContentTypes \subseteq
           {"script", "seo", "thumbnails", "imagePrompts", "music"}
    /\ entry = "generateCompleteContent" =>
           topic = <<"2", " ", "t", "i", "p", "s">>

SpecLive == InitLive /\ [][Next]_vars /\ Fairness

\* phrases with a count, and what may stand around them
Phrases ==
    { <<"1","0"," ","w","a","y","s">>, <<" ","t","o"," ","s","a","v","e"," ">>,
      <<"5"," ","q","u","e","s","t","i","o","n","s">>,
      <<" ","a","n","d"," ","a","n","s","w","e","r","s">>,
      <<"3","T","i","p","s">>, <<"2">> }

\* every concatenation of at most MaxPieces phrases
PhraseTopics ==
    { Concat(ps) : ps \in UNION { [1..m -> Phrases] : m \in 0..MaxPieces } }

\* generateScript called on a topic made of phrases, up to its first await
InitPhrases ==
    /\ entry = "generateScript"
    /\ topic \in PhraseTopics
    /\ selectedContentTypes = {}
    /\ rawScript = << >>
    /\ videoLength = "3-5 minutes (Standard)"
    /\ tone = None
    /\ authenticated = TRUE
    /\ InitIdle

SpecPhrases == InitPhrases /\ [][CallGenerateScript]_vars

\* the tone arguments a caller may pass: none, the seven of toneMap, a word
\* toneMap does not know, the name of a method every object has, the empty
\* string
ToneArguments ==
    {None} \cup { Some(t) : t \in ToneMapKeys \cup {"formal", "toString", ""} }

\* the five buckets, and two strings that are none of them
VideoLengths ==
    {"75 seconds (Short)", "3-5 minutes (Standard)", "8-12 minutes (Extended)",
     "15-20 minutes (Deep Dive)", "20+ minutes (Comprehensive)",
     "10 minutes", ""}

\* generateScript called with any tone and any length, up to its first await
InitPrompt ==
    /\ entry = "generateScript"
    /\ topic \in CoordTopics
    /\ selectedContentTypes = {}
    /\ rawScript = << >>
    /\ videoLength \in VideoLengths
    /\ tone \in ToneArguments
    /\ authenticated = TRUE
    /\ InitIdle

SpecPrompt == InitPrompt /\ [][CallGenerateScript]_vars

\* POST /api/generate/ai-content asking for the script, with any tone in
\* the body
InitTone ==
    /\ entry = "generateCompleteContent"
    /\ topic = <<"2", " ", "t", "i", "p", "s">>
    /\ selectedContentTypes = {"script"}
    /\ rawScript = << >>
    /\ videoLength \in {"75 seconds (Short)", "3-5 minutes (Standard)"}
    /\ tone \in ToneArguments
    /\ authenticated = TRUE
    /\ InitIdle

NextTone ==
    \/ PostAiContent
    \/ AiContentGenerates
    \/ FirstAttemptSettles
    \/ RetryAttemptSettles
    \/ ScriptAwaited
    \/ RouteCompletes
    \/ RouteFails

SpecTone == InitTone /\ [][NextTone]_vars

-----------------------------------------------------------------------------
(* Properties of the script generator, checked under SpecScript; those of    *)
(* the extraction alone (C7) under SpecExtract                              *)

ScriptCalls == SelectSeq(calls, LAMBDA c : c.gen = "script")

\* an attempt that was parsed and carries a mainContent array of length n
HasCount(parsed, n) ==
    /\ Present(parsed)
    /\ Present(Val(parsed).mainContent)
    /\ Len(Val(Val(parsed).mainContent)) = n

\* an attempt that was parsed and carries a mainContent array of another length
HasOtherCount(parsed, n) ==
    /\ Present(parsed)
    /\ Present(Val(parsed).mainContent)
    /\ Len(Val(Val(parsed).mainContent)) # n

\* an attempt that was parsed and has no mainContent, or an empty one
HasNoItems(parsed) ==
    /\ Present(parsed)
    /\ \/ ~Present(Val(parsed).mainContent)
       \/ Val(Val(parsed).mainContent) = << >>

\* a count of at least 1 was extracted from the topic
CountRequested == Present(requestedQuantity) /\ Val(requestedQuantity) >= 1

\* C1: with an explicit count N >= 1, every script generateScript returns
\* successfully has a mainContent of exactly N items
C1_QuantityContract ==
    (CountRequested /\ scriptOutcome.status = "fulfilled")
        => HasCount(scriptOutcome.value, Val(requestedQuantity))

\* C2: when the first response has exactly N items no retry is made:
\* one invocation in all, and that first response is what is returned
C2_NoRetryOnMatch ==
    (CountRequested /\ HasCount(parsedScript, Val(requestedQuantity)))
        => /\ calls = << Call("script", "first", topic) >>
           /\ scriptPc = "done"
           /\ retryParsed = None
           /\ scriptOutcome = Fulfilled(Val(parsedScript))

C2_Witness ==
    /\ CountRequested
    /\ HasCount(parsedScript, Val(requestedQuantity))
    /\ scriptOutcome.status = "fulfilled"

\* C3: when the first response has M # N items exactly one retry call is
\* made, and no execution makes more than two invocations
C3_ExactlyOneRetry ==
    /\ Len(ScriptCalls) <= 2
    /\ (CountRequested /\ HasOtherCount(parsedScript, Val(requestedQuantity)))
           => calls = << Call("script", "first", topic), Call("script", "retry", topic) >>
    /\ scriptPc = "done" => ~ENABLED NextScript

C3_Witness ==
    /\ CountRequested
    /\ HasOtherCount(parsedScript, Val(requestedQuantity))
    /\ scriptPc = "done"
    /\ Len(ScriptCalls) = 2

ScriptFields ==
    {"hook", "introduction", "mainContent", "conclusion", "totalWords",
     "estimatedDuration"}

\* C4: when the first count is wrong and the retry has N items, the retried
\* response is returned whole and no field of the first attempt is in it
C4_RetryReplacesFirst ==
    (CountRequested /\ HasOtherCount(parsedScript, Val(requestedQuantity))
        /\ HasCount(retryParsed, Val(requestedQuantity)))
        => /\ scriptOutcome = Fulfilled(Val(retryParsed))
           /\ \A f \in ScriptFields :
                 Val(scriptOutcome.value)[f] # Val(parsedScript)[f]

C4_Witness ==
    /\ CountRequested
    /\ HasOtherCount(parsedScript, Val(requestedQuantity))
    /\ HasCount(retryParsed, Val(requestedQuantity))
    /\ scriptOutcome.status = "fulfilled"

\* C5: when the first response has M # N items and the retry M' # N items,
\* generateScript fails with a message naming N and the retry's count M'
C5_FailsNamingLastCount ==
    (CountRequested /\ HasOtherCount(parsedScript, Val(requestedQuantity))
        /\ HasOtherCount(retryParsed, Val(requestedQuantity)))
        => /\ scriptOutcome.status = "rejected"
           /\ scriptOutcome.value = None
           /\ scriptOutcome.error =
                 << "Failed to generate script: ",
                    "Script generation failed to produce ",
                    ToString(Val(requestedQuantity)),
                    " items as requested (got ",
                    ToString(Len(Val(Val(retryParsed).mainContent))),
                    "). Please try again." >>

C5_Witness ==
    /\ CountRequested
    /\ HasOtherCount(parsedScript, Val(requestedQuantity))
    /\ HasOtherCount(retryParsed, Val(requestedQuantity))
    /\ Len(Val(Val(retryParsed).mainContent)) # Len(Val(Val(parsedScript).mainContent))
    /\ scriptOutcome.status = "rejected"

\* t[i..j-1] is a whole run of digits
DigitRun(t, i, j) ==
    /\ 1 <= i /\ i < j /\ j <= Len(t) + 1
    /\ \A d \in i..(j - 1) : t[d] \in Digits
    /\ i = 1 \/ t[i - 1] \notin Digits
    /\ j = Len(t) + 1 \/ t[j] \notin Digits

\* the integer t[i..j-1] is followed, after optional blanks, by the word w
CountedWord(t, i, j, w) ==
    /\ DigitRun(t, i, j)
    /\ \E k \in j..(Len(t) + 1) :
          /\ \A b \in j..(k - 1) : t[b] \in Whitespace
          /\ WordAt(t, k, w)

\* the text has some <integer> <unit-noun>
HasCountedNoun(t) ==
    \E i \in 1..Len(t), j \in 1..(Len(t) + 1), w \in UnitNouns :
        CountedWord(t, i, j, w)

\* C6: for a topic with no <integer> <unit-noun>, requestedQuantity is null
\* and generateScript makes one invocation, never retries, and accepts the
\* response whatever the length of its mainContent
C6_NoMatchNoContract ==
    (~HasCountedNoun(topic) /\ scriptPc # "idle")
        => /\ requestedQuantity = None
           /\ calls = << Call("script", "first", topic) >>
           /\ scriptPc # "retry"
           /\ Present(parsedScript) => scriptOutcome = Fulfilled(Val(parsedScript))

C6_Witness ==
    /\ ~HasCountedNoun(topic)
    /\ \E d \in 1..Len(topic) : topic[d] \in Digits
    /\ HasCount(parsedScript, MaxItems)
    /\ scriptOutcome.status = "fulfilled"

QuestionWord == <<"q","u","e","s","t","i","o","n">>

\* C7 as stated: every topic with "<N> questions", N >= 1, gives
\* isQAFormat = true and requestedQuantity = N
C7_QuestionsMeansQA ==
    scriptPc # "idle" =>
        \A i \in 1..Len(topic), j \in 1..(Len(topic) + 1) :
            (CountedWord(topic, i, j, QuestionWord)
                /\ ParseInt(SubSeq(topic, i, j - 1)) >= 1)
            => /\ isQAFormat
               /\ requestedQuantity = Some(ParseInt(SubSeq(topic, i, j - 1)))

\* what may stand between "question" and "answer" for the Q&A format:
\* an optional "s", blanks, an optional "and" or "&", blanks
IsQAGap(g) ==
    \E s \in 0..1, m \in 0..Len(g), c \in {<< >>, <<"a","n","d">>, <<"&">>} :
        /\ s + m + Len(c) <= Len(g)
        /\ s = 1 => g[1] = "s"
        /\ \A x \in (s + 1)..(s + m) : g[x] \in Whitespace
        /\ \A y \in 1..Len(c) : g[s + m + y] = c[y]
        /\ \A z \in (s + m + Len(c) + 1)..Len(g) : g[z] \in Whitespace

\* "answer(s)" follows "question(s)" in the text
AnswersFollow(t) ==
    \E i \in 1..Len(t), k \in 1..Len(t) :
        /\ WordAt(t, i, QuestionWord)
        /\ WordAt(t, k, <<"a","n","s","w","e","r">>)
        /\ i + Len(QuestionWord) <= k
        /\ IsQAGap([x \in 1..(k - i - Len(QuestionWord)) |->
                       Lower(t[i + Len(QuestionWord) + x - 1])])

\* the first <integer> <unit-noun> of the text is t[i..j-1] "questions"
FirstCountIsQuestions(t, i, j) ==
    /\ CountedWord(t, i, j, QuestionWord)
    /\ \A i2 \in 1..(i - 1), j2 \in 1..(Len(t) + 1), w \in UnitNouns :
          ~CountedWord(t, i2, j2, w)

\* C7 as amended: when the first counted noun of the topic is "<N> questions",
\* N >= 1, requestedQuantity = N; isQAFormat is true exactly when "answers"
\* follows "questions" in the text, and false with no mention of answers
C7_QuestionsCountAndQA ==
    scriptPc # "idle" =>
        /\ isQAFormat <=> AnswersFollow(topic)
        /\ \A i \in 1..Len(topic), j \in 1..(Len(topic) + 1) :
              (FirstCountIsQuestions(topic, i, j)
                  /\ ParseInt(SubSeq(topic, i, j - 1)) >= 1)
              => requestedQuantity = Some(ParseInt(SubSeq(topic, i, j - 1)))

C7_Witness ==
    /\ scriptPc # "idle"
    /\ \E i \in 1..Len(topic), j \in 1..(Len(topic) + 1) :
          /\ FirstCountIsQuestions(topic, i, j)
          /\ ParseInt(SubSeq(topic, i, j - 1)) >= 1
    /\ ~AnswersFollow(topic)
    /\ ~isQAFormat

\* C8: with a count N >= 1, an attempt without mainContent, or with an empty
\* one, is validated as an empty list: the first attempt goes to the retry,
\* the retry ends in failure
C8_AbsentCountsAsEmpty ==
    CountRequested =>
        /\ HasNoItems(parsedScript) => Len(ScriptCalls) = 2
        /\ HasNoItems(retryParsed) => scriptOutcome.status = "rejected"

-----------------------------------------------------------------------------
(* Properties of the coordinators, checked under Spec *)

AuxCalls == SelectSeq(calls, LAMBDA c : c.gen # "script")

\* C9: in a generateCompleteContent request that includes "script", no
\* auxiliary generator calls the model before generateScript has completed,
\* and none ever does when generateScript fails
C9_ScriptBeforeAuxiliary ==
    (entry = "generateCompleteContent" /\ Includes("script")) =>
        /\ AuxCalls # << >> =>
              scriptPc = "done" /\ scriptOutcome.status = "fulfilled"
        /\ \A i \in 1..Len(calls), j \in 1..Len(calls) :
              (calls[i].gen = "script" /\ calls[j].gen # "script") => i < j
        /\ scriptOutcome.status = "rejected" => AuxCalls = << >>

C9_Witness ==
    /\ entry = "generateCompleteContent"
    /\ Includes("script")
    /\ Len(ScriptCalls) = 2
    /\ AuxCalls # << >>

\* the generators a request asks for have all settled successfully
RequestedAllFulfilled ==
    /\ AllSettledWell(tasks)
    /\ Includes("seo") => tasks["seo"] = "fulfilled"
    /\ Includes("thumbnails") => tasks["thumbnails"] = "fulfilled"
    /\ Includes("imagePrompts") => tasks["imagePrompts"] = "fulfilled"
    /\ WantsAssets => tasks["assets"] = "fulfilled"

\* the fields of package p for the auxiliary kinds requested are populated
AuxiliaryFieldsPopulated(p) ==
    /\ Includes("seo") => Present(p.seo)
    /\ Includes("thumbnails") => Present(p.thumbnails)
    /\ (Includes("imagePrompts") \/ WantsAssets) => Present(p.assets)

\* C10 as stated: a package is handed over only after every requested
\* generator settled successfully, with the field of every requested kind,
\* script included, populated
C10_EveryRequestedKindPopulated ==
    outcome.status = "fulfilled" =>
        /\ RequestedAllFulfilled
        /\ AuxiliaryFieldsPopulated(Val(outcome.value))
        /\ Includes("script") => Present(Val(outcome.value).script)

\* C10 as amended: a package is handed over at most once, only after every
\* requested generator settled successfully, with the fields of the requested
\* auxiliary kinds populated, and with script populated when "script" was
\* requested of generateCompleteContent; generateContentFromScript never
\* populates script, requested or not
C10_PackageComplete ==
    /\ [](outcome.status = "fulfilled" =>
            /\ RequestedAllFulfilled
            /\ AuxiliaryFieldsPopulated(Val(outcome.value))
            /\ Val(outcome.value) = content
            /\ (entry = "generateCompleteContent" /\ Includes("script"))
                   => /\ scriptOutcome.status = "fulfilled"
                      /\ Val(outcome.value).script = scriptOutcome.value
            /\ entry = "generateContentFromScript"
                   => ~Present(Val(outcome.value).script))
    /\ [][outcome.status # "pending" => outcome' = outcome]_vars

C10_Witness ==
    /\ outcome.status = "fulfilled"
    /\ selectedContentTypes = {"script", "seo"}
    /\ Present(Val(outcome.value).script)
    /\ Present(Val(outcome.value).seo)

-----------------------------------------------------------------------------
(* Failures of the model invocations *)

\* the generators that make one invocation and parse it without a default
AuxGens == {"seo", "thumbnails", "assets"}

\* an invocation of generator gen settled the way `kind` says
Replied(gen, kind) ==
    \E i \in 1..Len(replies[gen]) : replies[gen][i].kind = kind

\* C11: once the model invocation of the SEO, thumbnail or production-assets
\* generator has failed, the coordinator has thrown its own prefixed error
\* and no package is ever handed to the caller
C11_AuxiliaryFailureFailsRequest ==
    (\E g \in AuxGens : Replied(g, "error")) =>
        /\ coordPc = "thrown"
        /\ outcome.status = "rejected"
        /\ outcome.error[1] = CoordPrefix

\* one generator failed after a sibling had written its field
C11_Witness ==
    /\ Replied("seo", "error")
    /\ tasks["thumbnails"] = "fulfilled"
    /\ Present(content.thumbnails)
    /\ outcome.status = "rejected"

\* C12: the coordinator reports failure only when no task it started is
\* still in flight
C12_FailureAfterSiblingsSettle ==
    outcome.status = "rejected" => \A n \in TaskNames : tasks[n] # "pending"

\* C14: an auxiliary generator whose response text is not valid JSON yields
\* a value instead of raising, and the request is not failed by it
C14_UnparseableYieldsDefault ==
    \A g \in AuxGens :
        Replied(g, "unparseable") =>
            /\ tasks[g] = "fulfilled"
            /\ outcome.status = "rejected" => \E h \in AuxGens : Replied(h, "error")

\* C20: generateScript whose first invocation fails is rejected with that
\* failure after one invocation; one whose retry invocation fails is
\* rejected with that failure, the first attempt not being returned
C20_InvocationFailureFailsScript ==
    /\ (Len(replies["script"]) >= 1 /\ replies["script"][1].kind = "error") =>
           /\ scriptPc = "done"
           /\ Len(ScriptCalls) = 1
           /\ scriptOutcome = ScriptFailure(ModelErrorMessage)
    /\ (Len(replies["script"]) = 2 /\ replies["script"][2].kind = "error") =>
           /\ scriptPc = "done"
           /\ Len(ScriptCalls) = 2
           /\ scriptOutcome = ScriptFailure(ModelErrorMessage)

C20_Witness ==
    /\ Len(replies["script"]) = 2
    /\ replies["script"][2].kind = "error"
    /\ HasOtherCount(parsedScript, Val(requestedQuantity))
    /\ scriptOutcome.status = "rejected"

-----------------------------------------------------------------------------
(* The assets bucket written by two tasks *)

\* the object the production-assets invocation was answered with
AssetsReturned == Val(replies["assets"][1].json)

BothAssetTasksFulfilled ==
    /\ Includes("imagePrompts")
    /\ WantsAssets
    /\ tasks["imagePrompts"] = "fulfilled"
    /\ tasks["assets"] = "fulfilled"

\* C13: once the image-prompts task and the production-assets task have both
\* succeeded, in whichever order, content.assets holds the prompts the
\* image-prompts task produced and the musicPrompts and bulletPoints the
\* production-assets task returned
C13_AssetsBucketMerged ==
    BothAssetTasksFulfilled =>
        /\ Present(content.assets)
        /\ Val(content.assets).imagePrompts = Some(ipResults)
        /\ Present(AssetsReturned.musicPrompts) =>
               Val(content.assets).musicPrompts = AssetsReturned.musicPrompts
        /\ Present(AssetsReturned.bulletPoints) =>
               Val(content.assets).bulletPoints = AssetsReturned.bulletPoints

-----------------------------------------------------------------------------
(* The image-prompt generators *)

IPCalls == SelectSeq(calls, LAMBDA c : c.gen = "imagePrompts")
IPReplies == replies["imagePrompts"]

\* the request failed for a reason other than the image-prompts task
FailedElsewhere ==
    \/ scriptOutcome.status = "rejected"
    \/ Present(content.script) /\ ~HasAllParts(Val(content.script))
    \/ \E g \in AuxGens : tasks[g] = "rejected"

\* C15: whatever sections fail, `results` holds one entry per section
\* processed, in section order, with the section's label and text; the entry
\* of a section whose invocation or parse failed has no prompts; the next
\* section is invoked all the same; the task ends fulfilled with one entry
\* per section and never fails the request
C15_SectionFailuresIsolated ==
    /\ Len(ipResults) = Len(IPReplies)
    /\ Len(ipResults) <= Len(ipSections)
    /\ \A i \in 1..Len(ipResults) :
          /\ ipResults[i].section = ipSections[i].name
          /\ ipResults[i].content = ipSections[i].content
          /\ IPReplies[i].tag = ipSections[i].name
          /\ IPReplies[i].kind # "json" => ipResults[i].prompts = << >>
          /\ (IPReplies[i].kind = "json"
                  /\ Present(Val(IPReplies[i].json).imagePrompts)) =>
                ipResults[i].prompts = Val(Val(IPReplies[i].json).imagePrompts)
    /\ tasks["imagePrompts"] # "rejected"
    /\ tasks["imagePrompts"] = "pending" =>
          /\ Len(ipResults) < Len(ipSections)
          /\ Len(IPCalls) = Len(ipResults) + 1
    /\ tasks["imagePrompts"] = "fulfilled" =>
          /\ Len(ipResults) = Len(ipSections)
          /\ Len(IPCalls) = Len(ipSections)
    /\ outcome.status = "rejected" => FailedElsewhere

\* a structured script whose first section failed and whose later sections
\* were processed, the package being returned
C15_Witness ==
    /\ Present(content.script)
    /\ Len(ipSections) >= 4
    /\ tasks["imagePrompts"] = "fulfilled"
    /\ IPReplies[1].kind = "error"
    /\ IPReplies[2].kind = "unparseable"
    /\ ipResults[3].prompts # << >>
    /\ outcome.status = "fulfilled"

-----------------------------------------------------------------------------
(* Raw-mode sectioning, checked under SpecRaw *)

\* positions of t holding a character that is not white space
Solid(t) == { i \in 1..Len(t) : t[i] \notin Whitespace }

\* no blank line (two line feeds in a row) lies between positions p and q
SameBlock(t, p, q) ==
    ~\E i \in p..(q - 1) : t[i] = "\n" /\ t[i + 1] = "\n"

\* positions at which a non-empty paragraph block begins
BlockStarts(t) ==
    { p \in Solid(t) : \A q \in Solid(t) : q < p => ~SameBlock(t, q, p) }

\* where the j-th non-empty block begins and ends
BlockStart(t, j) ==
    CHOOSE p \in BlockStarts(t) :
        Cardinality({ q \in BlockStarts(t) : q <= p }) = j

BlockEnd(t, j) ==
    Max({ q \in Solid(t) : q >= BlockStart(t, j) /\ SameBlock(t, BlockStart(t, j), q) })

\* C16: the sections of an uploaded script are its non-empty paragraph
\* blocks, the blocks being what blank lines (two line feeds in a row)
\* separate: one section per block, labelled Paragraph 1..k in order, none
\* for a block that is empty or white space; and the invocations made are
\* one per section, in order, on the section's text
C16_OneSectionPerBlock ==
    coordPc # "idle" =>
        LET k == Cardinality(BlockStarts(rawScript))
        IN  /\ Len(ipSections) = k
            /\ \A j \in 1..k :
                  /\ ipSections[j].name = "Paragraph " \o ToString(j)
                  /\ ipSections[j].content =
                         SubSeq(rawScript, BlockStart(rawScript, j),
                                BlockEnd(rawScript, j))
            /\ Len(IPCalls) <= k
            /\ \A j \in 1..Len(IPCalls) :
                  /\ IPCalls[j].tag = ipSections[j].name
                  /\ IPCalls[j].text = ipSections[j].content
            /\ tasks["imagePrompts"] = "fulfilled" =>
                  /\ Len(IPCalls) = k
                  /\ Len(ipResults) = k

\* "a", a block of one space, "a": two sections, two calls
C16_Witness ==
    /\ rawScript = <<"a", "\n", "\n", " ", "\n", "\n", "a">>
    /\ tasks["imagePrompts"] = "fulfilled"
    /\ Len(ipSections) = 2
    /\ Len(IPCalls) = 2

-----------------------------------------------------------------------------
(* Properties of the routes, checked under Spec *)

\* C17: a request of the from-existing-script workflow never runs the script
\* generator, whatever kinds it lists: no script invocation is made, the
\* script field stays absent in the package and in the project, the
\* single-invocation generators are given the uploaded text and the
\* image-prompt invocations its paragraphs
C17_UploadedScriptReplacesGenerator ==
    entry = "generateContentFromScript" =>
        /\ ScriptCalls = << >>
        /\ scriptPc = "idle"
        /\ scriptOutcome = Pending
        /\ ~Present(content.script)
        /\ outcome.status = "fulfilled" => ~Present(Val(outcome.value).script)
        /\ (Present(project) /\ Present(Val(project).generatedContent)) =>
               ~Present(Val(Val(project).generatedContent).script)
        /\ \A i \in 1..Len(calls) :
               IF calls[i].gen \in AuxGens
               THEN calls[i].text = rawScript
               ELSE \E j \in 1..Len(RawSections(rawScript)) :
                       /\ calls[i].tag = RawSections(rawScript)[j].name
                       /\ calls[i].text = RawSections(rawScript)[j].content

\* "script" is listed, the package is returned and stored without a script
C17_Witness ==
    /\ entry = "generateContentFromScript"
    /\ selectedContentTypes = {"script", "seo"}
    /\ Len(calls) = 1
    /\ res.status = 200
    /\ Val(project).status = "completed"

\* C18: a request whose generation failed has its project marked as failed:
\* not completed, no generated content stored, and not left in_progress
C18_FailedProjectMarkedFailed ==
    (res.status = 500 /\ Present(project)) =>
        /\ Val(project).status # "completed"
        /\ ~Present(Val(project).generatedContent)
        /\ Val(project).status # "in_progress"

\* C19: a request with an empty selectedContentTypes is rejected before a
\* project is created or a coordinator called
C19_EmptySelectionRejected ==
    selectedContentTypes = {} =>
        /\ ~Present(project)
        /\ coordPc = "idle"
        /\ outcome.status # "fulfilled"
        /\ res.status # 200

-----------------------------------------------------------------------------
(* Invocations per request, checked under Spec *)

\* the invocations generator gen has made
CallsOf(gen) == SelectSeq(calls, LAMBDA c : c.gen = gen)

\* the request lists a kind that generator gen serves
Requested(gen) ==
    CASE gen = "seo" -> Includes("seo")
      [] gen = "thumbnails" -> Includes("thumbnails")
      [] gen = "assets" -> WantsAssets
      [] gen = "imagePrompts" -> Includes("imagePrompts")

\* C21: the SEO, thumbnail and production-assets generators each invoke the
\* model once when a kind they serve is requested and never otherwise, one
\* production-assets invocation serving assets, music and bulletPoints
\* together; the image-prompt generator invokes it once per section; and an
\* invocation that failed is not made again
C21_NoAuxiliaryRetry ==
    /\ \A g \in AuxGens :
          /\ Len(CallsOf(g)) = IF tasks[g] = "none" THEN 0 ELSE 1
          /\ Len(replies[g]) <= Len(CallsOf(g))
          /\ tasks[g] # "none" => Requested(g)
          /\ (Requested(g) /\ coordPc \in {"joining", "returned"}) =>
                tasks[g] # "none"
    /\ Len(IPCalls) <= Len(ipSections)
    /\ Len(IPReplies) <= Len(IPCalls)
    /\ \A j \in 1..Len(IPCalls) :
          /\ IPCalls[j].tag = ipSections[j].name
          /\ IPCalls[j].text = ipSections[j].content
    /\ tasks["imagePrompts"] = "fulfilled" => Len(IPCalls) = Len(ipSections)
    /\ ~Includes("imagePrompts") => IPCalls = << >>

\* music and bulletPoints are both selected and the one production-assets
\* invocation has failed
C21_Witness ==
    /\ selectedContentTypes = {"music", "bulletPoints"}
    /\ Replied("assets", "error")
    /\ Len(CallsOf("assets")) = 1
    /\ outcome.status = "rejected"

\* the image-prompts task of a generateCompleteContent request was started
ImagePromptsStarted ==
    /\ entry = "generateCompleteContent"
    /\ tasks["imagePrompts"] # "none"

\* C22: in generateCompleteContent, with a generated script the sections
\* are Hook, Introduction, Main Content 1..N and Conclusion, in that order
\* and with the text of the script's parts, and the result has N + 3
\* entries; with no generated script the sections are the paragraphs of the
\* topic
C22_ModeFollowsScript ==
    ImagePromptsStarted =>
        IF Present(content.script)
        THEN LET script == Val(content.script)
                 N == Len(Val(script.mainContent))
             IN  /\ Len(ipSections) = N + 3
                 /\ ipSections[1] =
                       [name |-> "Hook", content |-> Val(script.hook).content]
                 /\ ipSections[2] =
                       [name |-> "Introduction",
                        content |-> Val(script.introduction).content]
                 /\ \A i \in 1..N :
                       ipSections[2 + i] =
                          [name |-> "Main Content " \o ToString(i),
                           content |-> Val(script.mainContent)[i].content]
                 /\ ipSections[N + 3] =
                       [name |-> "Conclusion",
                        content |-> Val(script.conclusion).content]
                 /\ tasks["imagePrompts"] = "fulfilled" =>
                       /\ Len(ipResults) = N + 3
                       /\ \A i \in 1..(N + 3) :
                             ipResults[i].section = ipSections[i].name
        ELSE LET k == Cardinality(BlockStarts(topic))
             IN  /\ ~Includes("script")
                 /\ Len(ipSections) = k
                 /\ \A j \in 1..k :
                       /\ ipSections[j].name = "Paragraph " \o ToString(j)
                       /\ ipSections[j].content =
                              SubSeq(topic, BlockStart(topic, j), BlockEnd(topic, j))

\* a generated script of two items: five entries
C22_Witness ==
    /\ ImagePromptsStarted
    /\ Present(content.script)
    /\ Len(Val(Val(content.script).mainContent)) = 2
    /\ tasks["imagePrompts"] = "fulfilled"
    /\ Len(ipResults) = 5

-----------------------------------------------------------------------------
(* Propagation of failures, checked under Spec *)

\* what the catch of a single-invocation generator puts before the message
FailurePrefix(gen) ==
    CASE gen = "seo" -> "Failed to generate SEO package: "
      [] gen = "thumbnails" -> "Failed to generate thumbnail concepts: "
      [] gen = "assets" -> "Failed to generate production assets: "

\* the message of the failure a reply stands for
FailureMessage(reply) ==
    IF reply.kind = "error" THEN ModelErrorMessage ELSE SyntaxErrorMessage

\* C26: no task has failed while the coordinator has yet to raise; the step
\* in which a task fails first raises that task's error behind the
\* coordinator's prefix; and once raised the outcome never changes,
\* whatever the siblings do later
C26_FirstFailureWins ==
    /\ []((\E g \in AuxGens : tasks[g] = "rejected") => outcome.status = "rejected")
    /\ [][\A g \in AuxGens :
             (outcome.status = "pending" /\ tasks[g] = "pending"
                  /\ tasks'[g] = "rejected") =>
                outcome' = Rejected(<<CoordPrefix, FailurePrefix(g)>>
                               \o FailureMessage(replies'[g][1]))]_vars
    /\ [][outcome.status = "rejected" => outcome' = outcome]_vars

\* SEO and thumbnails both failed, thumbnails first: its error is the one
\* raised although SEO was pushed first
C26_Witness ==
    /\ tasks["seo"] = "rejected"
    /\ tasks["thumbnails"] = "rejected"
    /\ replies["seo"][1].kind = "error"
    /\ replies["thumbnails"][1].kind = "unparseable"
    /\ outcome.error =
          <<CoordPrefix, "Failed to generate thumbnail concepts: ">>
              \o SyntaxErrorMessage

-----------------------------------------------------------------------------
(* The fields of the package, checked under Spec *)

\* the kinds some generator serves
KnownKinds ==
    {"script", "seo", "thumbnails", "imagePrompts", "assets", "music",
     "bulletPoints"}

\* package p has no field but those of the kinds requested
OnlyRequestedFields(p) ==
    /\ Present(p.script) =>
          Includes("script") /\ entry = "generateCompleteContent"
    /\ Present(p.seo) => Includes("seo")
    /\ Present(p.thumbnails) => Includes("thumbnails")
    /\ Present(p.assets) =>
          \/ Includes("imagePrompts")
          \/ Includes("assets")
          \/ Includes("music")
          \/ Includes("bulletPoints")

\* C29: a returned package, and the object being populated at any time,
\* has only the fields of the kinds requested; every invocation is by a
\* generator serving a requested kind; a request of unrecognised kinds alone
\* invokes nothing and returns the empty package
C29_OnlyRequestedKindsWritten ==
    /\ OnlyRequestedFields(content)
    /\ outcome.status = "fulfilled" => OnlyRequestedFields(Val(outcome.value))
    /\ \A i \in 1..Len(calls) :
          IF calls[i].gen = "script"
          THEN Includes("script") /\ entry # "generateContentFromScript"
          ELSE Requested(calls[i].gen)
    /\ (entry # "generateScript" /\ selectedContentTypes \cap KnownKinds = {}) =>
          /\ calls = << >>
          /\ content = EmptyContent
          /\ outcome.status = "fulfilled" => Val(outcome.value) = EmptyContent

\* seo and an unrecognised kind: one invocation, one field
C29_Witness ==
    /\ selectedContentTypes = {"captions", "seo"}
    /\ outcome.status = "fulfilled"
    /\ Len(calls) = 1
    /\ Present(Val(outcome.value).seo)
    /\ ~Present(Val(outcome.value).thumbnails)
    /\ ~Present(Val(outcome.value).assets)

\* the package the callbacks build when the tasks complete in the order
\* they were pushed: seo, thumbnails, image prompts, production assets
InPushOrder ==
    LET c0 == [EmptyContent EXCEPT !.script = content.script]
        c1 == IF Includes("seo")
              THEN WithSeo(c0, Val(replies["seo"][1].json)) ELSE c0
        c2 == IF Includes("thumbnails")
              THEN WithThumbnails(c1, Val(replies["thumbnails"][1].json)) ELSE c1
        c3 == IF Includes("imagePrompts") THEN WithImagePrompts(c2, ipResults) ELSE c2
    IN  IF WantsAssets THEN WithAssets(c3, AssetsReturned) ELSE c3

\* C30: the package returned is the one the same responses give in the
\* order of pushing, hence the same in every completion order
C30_OrderIndependent ==
    outcome.status = "fulfilled" => Val(outcome.value) = InPushOrder

-----------------------------------------------------------------------------
(* Termination, checked under SpecLive *)

\* the steps that are a model invocation settling
ModelReplies ==
    \/ FirstAttemptSettles
    \/ RetryAttemptSettles
    \/ SeoSettles
    \/ ThumbnailsSettles
    \/ AssetsSettles
    \/ ImagePromptSettles

\* the steps of the routes and of the coordinators themselves
OwnSteps ==
    \/ PostAiContent
    \/ AiContentGenerates
    \/ ScriptAwaited
    \/ PostScriptContent
    \/ ScriptContentGenerates
    \/ RouteCompletes
    \/ RouteFails

\* the coordinator was called and has neither returned nor thrown
Waiting == coordPc \in {"awaitScript", "joining"}

\* at most 2 invocations for the script, 1 for each single-invocation
\* generator, 1 per section for image prompts
CallsBounded ==
    /\ Len(ScriptCalls) <= 2
    /\ \A g \in AuxGens : Len(CallsOf(g)) <= 1
    /\ Len(IPCalls) <= Len(ipSections)
    /\ Len(calls) <= 2 + 3 + Len(ipSections)

\* C28: when every invocation settles, a request whose project was created
\* reaches a returned package or a raised error, and the route answers; the
\* invocations made stay within the bound; and while the coordinator waits
\* with generateScript not settled, nothing but a model reply can move the
\* request, no timeout being among the steps
C28_Terminates ==
    /\ Present(project) ~> (outcome.status # "pending" /\ res.status # 0)
    /\ []CallsBounded
    /\ []((Waiting /\ (coordPc = "awaitScript" => scriptPc # "done")) =>
            (ENABLED ModelReplies /\ ~ENABLED OwnSteps))

\* script and image prompts requested, the script retried, every section
\* invoked, the package returned and answered
C28_Witness ==
    /\ selectedContentTypes = {"script", "imagePrompts"}
    /\ Len(ScriptCalls) = 2
    /\ Len(IPCalls) = Len(ipSections)
    /\ Len(ipSections) >= 4
    /\ outcome.status = "fulfilled"
    /\ res.status = 200

-----------------------------------------------------------------------------
(* Extraction and the prompt *)

\* t[i..j-1] is an <integer> <unit-noun> occurrence
Occurrence(t, i, j) == \E w \in UnitNouns : CountedWord(t, i, j, w)

\* the occurrences of the text, as pairs of bounds of their integers
Occurrences(t) ==
    { ij \in (1..Len(t)) \X (1..(Len(t) + 1)) : Occurrence(t, ij[1], ij[2]) }

\* C23: for a topic with <integer> <unit-noun> occurrences, requestedQuantity
\* is the integer of the leftmost one, and isQAFormat is true exactly when
\* the questions-and-answers pattern is in the topic, wherever the count came
\* from; "10 ways to save " gives 10 and false, "5 questions and answers"
\* gives 5 and true
C23_LeftmostOccurrence ==
    scriptPc # "idle" =>
        /\ \A ij \in Occurrences(topic) :
              (\A o \in Occurrences(topic) : ij[1] <= o[1])
              => requestedQuantity = Some(ParseInt(SubSeq(topic, ij[1], ij[2] - 1)))
        /\ isQAFormat <=> AnswersFollow(topic)
        /\ topic = <<"1","0"," ","w","a","y","s"," ","t","o"," ","s","a","v","e"," ">>
              => (requestedQuantity = Some(10) /\ ~isQAFormat)
        /\ topic = <<"5"," ","q","u","e","s","t","i","o","n","s"," ","a","n","d"," ",
                     "a","n","s","w","e","r","s">>
              => (requestedQuantity = Some(5) /\ isQAFormat)

\* "3Tips5 questions and answers": two occurrences with different integers,
\* the count taken from the first, the format from the second
C23_Witness ==
    /\ scriptPc # "idle"
    /\ Cardinality(Occurrences(topic)) = 2
    /\ \E a, b \in Occurrences(topic) :
          /\ a[1] < b[1]
          /\ ParseInt(SubSeq(topic, a[1], a[2] - 1)) = 3
          /\ ParseInt(SubSeq(topic, b[1], b[2] - 1)) = 5
    /\ requestedQuantity = Some(3)
    /\ isQAFormat

\* the directive of the prompt built, << >> if the prompt has none
Directive == Val(prompt).quantityInstruction

\* C24: the prompt has the exactly-N directive exactly when requestedQuantity
\* is set, whatever the integer; the directive names N and is phrased for
\* question and answer pairs exactly when isQAFormat; a retry for the count
\* happens only with the directive, and without the directive the parsed
\* response is returned unvalidated
C24_DirectiveIffQuantity ==
    Present(prompt) =>
        /\ Present(Directive) <=> Present(requestedQuantity)
        /\ Present(Directive) =>
              /\ Val(Directive).exactly = Val(requestedQuantity)
              /\ Val(Directive).phrasing =
                    IF isQAFormat THEN "question and answer pairs" ELSE "items"
        /\ Len(ScriptCalls) = 2 => Present(Directive)
        /\ (~Present(Directive) /\ Present(parsedScript))
              => scriptOutcome = Fulfilled(Val(parsedScript))

\* the tone generateScript works with
ToneReceived == DefaultTone(tone)

\* C25: a tone outside the seven of toneMap gives the guidance of
\* "informative"; a length outside the five buckets gives 4 minutes and 600
\* words; the five buckets give their minutes and minutes x 150 words, rounded
C25_UnknownDegradesToDefault ==
    Present(prompt) =>
        /\ ToneReceived \notin ToneMapKeys
              => Val(prompt).toneInstruction = Guidance("informative")
        /\ ToneReceived \in ToneMapKeys
              => Val(prompt).toneInstruction = Guidance(ToneReceived)
        /\ << Val(prompt).durationMinutes, Val(prompt).targetWords >> =
              CASE videoLength = "75 seconds (Short)" -> << 125, 188 >>
                [] videoLength = "3-5 minutes (Standard)" -> << 400, 600 >>
                [] videoLength = "8-12 minutes (Extended)" -> << 1000, 1500 >>
                [] videoLength = "15-20 minutes (Deep Dive)" -> << 1750, 2625 >>
                [] videoLength = "20+ minutes (Comprehensive)" -> << 2500, 3750 >>
                [] OTHER -> << 400, 600 >>

\* C27: a tone of toneMap in the body of POST /api/generate/ai-content is
\* still in the body as parsed by generateContentSchema, is the tone
\* generateScript receives, and its guidance is in the prompt
C27_BodyToneReachesPrompt ==
    \A T \in ToneMapKeys :
        (tone = Some(T) /\ Present(prompt)) =>
            /\ Destructured(Parse(generateContentSchema, Body), "tone") = Some(T)
            /\ Val(prompt).tone = T
            /\ Val(prompt).toneInstruction = Guidance(T)

=============================================================================
